---- MODULE Spec2Model ----
(***************************************************************************)
(* Model of find_unused_javascript_files.py.                               *)
(*                                                                         *)
(* Strings are sequences of one-character strings, so that basename,       *)
(* lower() and endswith() are computed as the Python code computes them.   *)
(* The file system is a directory tree (the entries os.walk yields) plus   *)
(* the content of each HTML file, already parsed into its elements.        *)
(***************************************************************************)
EXTENDS Integers, Sequences, FiniteSets, TLC

VARIABLES
    pc,               \* position of main() / of the function under study
    tree,             \* file system: the (dir, filenames) entries, in os.walk order
    content,          \* file system: path -> content of each HTML and JS file
    target_folder,    \* main: target_folder
    html_files,       \* main: html_files
    js_files,         \* main: js_files
    idx,              \* gather_all_used_js_names: position of the for loop (1-based)
    used_in_file,     \* gather_all_used_js_names: used_in_file
    all_used,         \* gather_all_used_js_names: all_used
    used_js_names,    \* main: used_js_names
    used_js_paths,    \* main: used_js_paths
    unused_js_paths,  \* main: unused_js_paths
    log,              \* the lines handed to logging.info, in order
    exit_code         \* process exit status (-1 while running)

vars == <<pc, tree, content, target_folder, html_files, js_files, idx, used_in_file, all_used,
          used_js_names, used_js_paths, unused_js_paths, log, exit_code>>

----------------------------------------------------------------------------
(* Bounds *)

MaxFiles == 3     \* files in the scanned tree (main pipeline)
MaxJs    == 3     \* length of the js_files list given to partition_js_files
MaxElems == 2     \* elements of the HTML document given to the extractor

----------------------------------------------------------------------------
(* String helpers *)

Range(s) == { s[i] : i \in 1..Len(s) }

\* str.lower() on one character (the letters the model uses)
lower_char(c) ==
    CASE c = "A" -> "a" [] c = "J" -> "j" [] c = "S" -> "s" [] c = "K" -> "k"
      [] c = "H" -> "h" [] c = "T" -> "t" [] c = "M" -> "m" [] c = "L" -> "l"
      [] c = "C" -> "c" [] c = "B" -> "b" [] OTHER -> c

\* str.lower()
lower(s) == [ i \in 1..Len(s) |-> lower_char(s[i]) ]

\* str.endswith(suffix)
endswith(s, suffix) ==
    /\ Len(s) >= Len(suffix)
    /\ SubSeq(s, Len(s) - Len(suffix) + 1, Len(s)) = suffix

\* str.startswith(prefix)
startswith(s, prefix) ==
    /\ Len(s) >= Len(prefix)
    /\ SubSeq(s, 1, Len(prefix)) = prefix

\* index of the last "/" of p, 0 when there is none (str.rfind("/") + 1)
last_sep(p) ==
    LET S == { i \in 1..Len(p) : p[i] = "/" }
    IN  IF S = {} THEN 0 ELSE CHOOSE i \in S : \A j \in S : j <= i

\* os.path.basename (posix): what follows the last "/"
basename(p) == SubSeq(p, last_sep(p) + 1, Len(p))

HTML_EXTENSION == <<".", "h", "t", "m", "l">>
JS_EXTENSION   == <<".", "j", "s">>
SCRIPT_TAG     == "script"


----------------------------------------------------------------------------
(* Paths: os.path.join, os.path.normpath, os.path.abspath (posix) *)

S_dot    == <<".">>
S_dotdot == <<".", ".">>
S_slash  == <<"/">>

\* the process's working directory, os.getcwd()
CWD == <<"/", "r">>

\* os.path.join(a, b)
path_join(a, b) ==
    IF startswith(b, S_slash) THEN b
    ELSE IF a = <<>> \/ endswith(a, S_slash) THEN a \o b
    ELSE a \o S_slash \o b

\* str.split("/"): the components of p, empty ones included
RECURSIVE split_from(_, _, _)
split_from(p, i, cur) ==
    IF i > Len(p) THEN <<cur>>
    ELSE IF p[i] = "/" THEN <<cur>> \o split_from(p, i + 1, <<>>)
    ELSE split_from(p, i + 1, Append(cur, p[i]))

split(p) == split_from(p, 1, <<>>)

\* "/".join(comps)
RECURSIVE join_comps(_)
join_comps(comps) ==
    IF comps = <<>> THEN <<>>
    ELSE IF Len(comps) = 1 THEN comps[1]
    ELSE comps[1] \o S_slash \o join_comps(Tail(comps))

\* the loop of normpath over the components
RECURSIVE norm_comps(_, _, _)
norm_comps(comps, new_comps, initial_slashes) ==
    IF comps = <<>> THEN new_comps
    ELSE LET comp == Head(comps) IN
         IF comp = <<>> \/ comp = S_dot
         THEN norm_comps(Tail(comps), new_comps, initial_slashes)
         ELSE IF \/ comp # S_dotdot
                 \/ (initial_slashes = 0 /\ new_comps = <<>>)
                 \/ (new_comps # <<>> /\ new_comps[Len(new_comps)] = S_dotdot)
         THEN norm_comps(Tail(comps), Append(new_comps, comp), initial_slashes)
         ELSE IF new_comps # <<>>
         THEN norm_comps(Tail(comps), SubSeq(new_comps, 1, Len(new_comps) - 1),
                         initial_slashes)
         ELSE norm_comps(Tail(comps), new_comps, initial_slashes)

\* os.path.normpath
normpath(path) ==
    IF path = <<>> THEN S_dot
    ELSE LET initial_slashes ==
                 IF ~startswith(path, S_slash) THEN 0
                 ELSE IF startswith(path, <<"/", "/">>)
                         /\ ~startswith(path, <<"/", "/", "/">>) THEN 2
                 ELSE 1
             body == join_comps(norm_comps(split(path), <<>>, initial_slashes))
             res  == [ i \in 1..initial_slashes |-> "/" ] \o body
         IN  IF res = <<>> THEN S_dot ELSE res

\* os.path.abspath
abspath(path) ==
    normpath(IF startswith(path, S_slash) THEN path ELSE path_join(CWD, path))

----------------------------------------------------------------------------
(* File Collector *)

\* os.walk(root_folder): the entries of root_folder and of the directories
\* below it, top-down; nothing when root_folder is no directory (os.walk
\* swallows the scandir error, onerror being None)
is_under(dir, root_folder) ==
    \/ dir = root_folder
    \/ startswith(dir, root_folder \o S_slash)

RECURSIVE walk_from(_, _)
walk_from(entries, root_folder) ==
    IF entries = <<>> THEN <<>>
    ELSE (IF is_under(Head(entries).dir, root_folder) THEN <<Head(entries)>> ELSE <<>>)
         \o walk_from(Tail(entries), root_folder)

os_walk(root_folder) == walk_from(tree, root_folder)

\* the inner loop: for name in filenames
RECURSIVE collect_names(_, _, _)
collect_names(current_dir, filenames, extension) ==
    IF filenames = <<>> THEN <<>>
    ELSE LET name == Head(filenames)
             rest == collect_names(current_dir, Tail(filenames), extension)
         IN  IF endswith(lower(name), extension)
             THEN <<abspath(path_join(current_dir, name))>> \o rest
             ELSE rest

\* the outer loop: for current_dir, _, filenames in os.walk(root_folder)
RECURSIVE collect_dirs(_, _)
collect_dirs(entries, extension) ==
    IF entries = <<>> THEN <<>>
    ELSE collect_names(Head(entries).dir, Head(entries).filenames, extension)
         \o collect_dirs(Tail(entries), extension)

collect_files_by_extension(root_folder, extension) ==
    collect_dirs(os_walk(root_folder), extension)

----------------------------------------------------------------------------
(* HTML Reference Extractor *)

\* open(html_path) succeeds
can_open(html_path) == content[html_path].ok

\* soup.find_all(SCRIPT_TAG, src=True): the script elements that carry a
\* src attribute, in document order
RECURSIVE find_all(_)
find_all(elems) ==
    IF elems = <<>> THEN <<>>
    ELSE (IF Head(elems).tag = SCRIPT_TAG /\ Head(elems).has_src
          THEN <<Head(elems)>> ELSE <<>>) \o find_all(Tail(elems))

\* mutant: the name is stored lower-cased
add_script_lowered(used_names, script) ==
    LET js_name == basename(script.src)
    IN  IF endswith(lower(js_name), JS_EXTENSION)
        THEN used_names \cup {lower(js_name)}
        ELSE used_names

\* one iteration of the loop over the script elements
add_script(used_names, script) ==
    LET src_value == script.src
        js_name   == basename(src_value)
    IN  IF endswith(lower(js_name), JS_EXTENSION)
        THEN used_names \cup {js_name}
        ELSE used_names

RECURSIVE extract_loop(_, _)
extract_loop(scripts, used_names) ==
    IF scripts = <<>> THEN used_names
    ELSE extract_loop(Tail(scripts), add_script(used_names, Head(scripts)))

\* the value returned when the file can be opened
extract_js_filenames_from_html(html_path) ==
    extract_loop(find_all(content[html_path].elems), {})

----------------------------------------------------------------------------
(* Reference Aggregator: all_used.update(used_in_file) *)

update(all, names) == all \cup names

----------------------------------------------------------------------------
(* Unused-File Resolver *)

\* mutant: the else is lost, every path is appended to unused_js
classify_no_else(acc, js_path, used_names) ==
    LET js_name == basename(js_path)
    IN  IF js_name \in used_names
        THEN <<Append(acc[1], js_path), Append(acc[2], js_path)>>
        ELSE <<acc[1], Append(acc[2], js_path)>>

\* mutant: the names are compared case-insensitively
classify_nocase(acc, js_path, used_names) ==
    LET js_name == basename(js_path)
    IN  IF lower(js_name) \in { lower(n) : n \in used_names }
        THEN <<Append(acc[1], js_path), acc[2]>>
        ELSE <<acc[1], Append(acc[2], js_path)>>

\* mutant: a name counts once, for the first path that carries it
classify_once(acc, js_path, used_names) ==
    LET js_name == basename(js_path)
    IN  IF js_name \in used_names
           /\ \A k \in 1..Len(acc[1]) : basename(acc[1][k]) # js_name
        THEN <<Append(acc[1], js_path), acc[2]>>
        ELSE <<acc[1], Append(acc[2], js_path)>>

\* the loop body: <<used_js, unused_js>> after looking at js_path
classify(acc, js_path, used_names) ==
    LET js_name == basename(js_path)
    IN  IF js_name \in used_names
        THEN <<Append(acc[1], js_path), acc[2]>>
        ELSE <<acc[1], Append(acc[2], js_path)>>

RECURSIVE partition_loop(_, _, _)
partition_loop(paths, used_names, acc) ==
    IF paths = <<>> THEN acc
    ELSE partition_loop(Tail(paths), used_names, classify(acc, Head(paths), used_names))

partition_js_files(paths, used_names) ==
    partition_loop(paths, used_names, <<<<>>, <<>>>>)

----------------------------------------------------------------------------
(* Reporter *)

Line(msg, args) == [msg |-> msg, args |-> args]

MSG_SCANNING == "Scanning project folder: %s"
MSG_FOUND    == "Found %d HTML files and %d JS files."
MSG_SUMMARY  == "----- SUMMARY -----"
MSG_USED_HDR == "JavaScript files referenced by HTML:"
MSG_USED     == "  USED   %s"
MSG_NO_USED  == "No JavaScript files are referenced."
MSG_UNUSED_HDR == "JavaScript files NOT referenced by any HTML:"
MSG_UNUSED   == "  UNUSED %s"
MSG_ALL_USED == "All JavaScript files are referenced!"

path_lines(msg, paths) == [ i \in 1..Len(paths) |-> Line(msg, <<paths[i]>>) ]

\* mutant: the second block tests and lists used_js again
log_results_copied(used_js, unused_js) ==
    <<Line(MSG_SUMMARY, <<>>)>>
    \o (IF used_js # <<>>
        THEN <<Line(MSG_USED_HDR, <<>>)>> \o path_lines(MSG_USED, used_js)
        ELSE <<Line(MSG_NO_USED, <<>>)>>)
    \o (IF used_js # <<>>
        THEN <<Line(MSG_UNUSED_HDR, <<>>)>> \o path_lines(MSG_UNUSED, used_js)
        ELSE <<Line(MSG_ALL_USED, <<>>)>>)

\* the lines log_results hands to logging.info
log_results(used_js, unused_js) ==
    <<Line(MSG_SUMMARY, <<>>)>>
    \o (IF used_js # <<>>
        THEN <<Line(MSG_USED_HDR, <<>>)>> \o path_lines(MSG_USED, used_js)
        ELSE <<Line(MSG_NO_USED, <<>>)>>)
    \o (IF unused_js # <<>>
        THEN <<Line(MSG_UNUSED_HDR, <<>>)>> \o path_lines(MSG_UNUSED, unused_js)
        ELSE <<Line(MSG_ALL_USED, <<>>)>>)

----------------------------------------------------------------------------
(* The file systems and inputs the runs are checked on *)

\* injective sequences over S of length at most n (a directory listing
\* names each file once)
ListingsOf(S, n) ==
    UNION { { f \in [1..k -> S] : \A i, j \in 1..k : i # j => f[i] # f[j] } : k \in 0..n }

N_a_js   == <<"a", ".", "j", "s">>
N_A_JS   == <<"A", ".", "J", "S">>
N_b_js   == <<"b", ".", "j", "s">>
N_i_html == <<"i", ".", "h", "t", "m", "l">>
N_K_HTML == <<"K", ".", "H", "T", "M", "L">>

NamePool == { N_a_js, N_A_JS, N_i_html, N_K_HTML }

ROOT_DIR == <<"/", "r">>
SUB_DIR  == <<"/", "r", "/", "d">>

\* a root directory, with or without one subdirectory
Trees ==
    { <<[dir |-> ROOT_DIR, filenames |-> fs]>> : fs \in ListingsOf(NamePool, MaxFiles) }
    \cup
    { <<[dir |-> ROOT_DIR, filenames |-> fs[1]], [dir |-> SUB_DIR, filenames |-> fs[2]]>> :
        fs \in { q \in ListingsOf(NamePool, MaxFiles) \X ListingsOf(NamePool, MaxFiles) :
                   Len(q[1]) + Len(q[2]) <= MaxFiles } }

\* the paths of the files of a tree whose name ends in extension
RECURSIVE paths_of(_, _)
paths_of(entries, extension) ==
    IF entries = <<>> THEN {}
    ELSE { path_join(Head(entries).dir, n) :
             n \in { m \in Range(Head(entries).filenames) :
                       endswith(lower(m), extension) } }
         \cup paths_of(Tail(entries), extension)

Elem(tag, has_src, src) == [tag |-> tag, has_src |-> has_src, src |-> src]

SRC_a_js     == N_a_js
SRC_lib_A_JS == <<"l", "i", "b", "/", "A", ".", "J", "S">>
SRC_b_JS     == <<"b", ".", "J", "S">>
SRC_c_css    == <<"c", ".", "c", "s", "s">>
SRC_js_dir   == <<"j", "s", "/">>
SRC_ajs      == <<"a", "j", "s">>

\* an HTML file that cannot be opened (permission denied)
Unreadable == [ok |-> FALSE, elems |-> <<>>, imports |-> <<>>]
Doc(elems) == [ok |-> TRUE, elems |-> elems, imports |-> <<>>]

\* <script src="a.js"></script>
DOC_a == Doc(<<Elem("script", TRUE, SRC_a_js)>>)
\* <script src="lib/A.JS"></script><script>...</script>
DOC_A == Doc(<<Elem("script", TRUE, SRC_lib_A_JS), Elem("script", FALSE, <<>>)>>)

\* <script src="c.css"></script><img src="a.js">
DOC_none == Doc(<<Elem("script", TRUE, SRC_c_css), Elem("img", TRUE, SRC_a_js)>>)

HtmlPool == { Unreadable, DOC_a, DOC_A, DOC_none }

\* a JavaScript file, by the module specifiers its text imports
JsFile(imports) == [ok |-> TRUE, elems |-> <<>>, imports |-> imports]

\* import helper from './a'
IMPORT_a == <<".", "/", "a">>

JsPool == { JsFile(<<>>), JsFile(<<IMPORT_a>>) }

\* the contents a tree's files can have
Contents(t) ==
    { h @@ j : h \in [paths_of(t, HTML_EXTENSION) -> HtmlPool],
               j \in [paths_of(t, JS_EXTENSION) -> JsPool] }

\* the command line: no argument, or one
NO_ARG  == <<>>
ArgPool == { NO_ARG,
             <<ROOT_DIR>>,
             <<<<"d">>>>,
             <<<<".", "/", "d", "/", ".", ".">>>>,
             <<<<"/", "n", "x">>>> }

----------------------------------------------------------------------------
(* main() *)

Init ==
    /\ pc = "start"
    /\ tree \in Trees
    /\ content \in Contents(tree)
    /\ target_folder = <<>>
    /\ html_files = <<>>
    /\ js_files = <<>>
    /\ idx = 1
    /\ used_in_file = {}
    /\ all_used = {}
    /\ used_js_names = {}
    /\ used_js_paths = <<>>
    /\ unused_js_paths = <<>>
    /\ log = <<>>
    /\ exit_code = -1

\* lines 144-160: argument handling, the two collections, the count line;
\* then gather_all_used_js_names is entered (line 79)
Start(argv) ==
    /\ pc = "start"
    /\ LET folder == abspath(IF Len(argv) > 0 THEN argv[1] ELSE S_dot)
           htmls  == collect_files_by_extension(folder, HTML_EXTENSION)
           jss    == collect_files_by_extension(folder, JS_EXTENSION)
       IN  /\ target_folder' = folder
           /\ html_files' = htmls
           /\ js_files' = jss
           /\ log' = <<Line(MSG_SCANNING, <<folder>>),
                       Line(MSG_FOUND, <<Len(htmls), Len(jss)>>)>>
    /\ idx' = 1
    /\ all_used' = {}
    /\ pc' = "gather"
    /\ UNCHANGED <<tree, content, used_in_file, used_js_names, used_js_paths, unused_js_paths, exit_code>>

\* lines 80-82, one iteration, the file opens
GatherStep ==
    /\ pc = "gather"
    /\ idx <= Len(html_files)
    /\ can_open(html_files[idx])
    /\ used_in_file' = extract_js_filenames_from_html(html_files[idx])
    /\ all_used' = update(all_used, used_in_file')
    /\ idx' = idx + 1
    /\ UNCHANGED <<pc, tree, content, target_folder, html_files, js_files, used_js_names,
                   used_js_paths, unused_js_paths, log, exit_code>>

\* line 60 raises (no handler anywhere): the interpreter ends the process
\* with a traceback and status 1
GatherRaise ==
    /\ pc = "gather"
    /\ idx <= Len(html_files)
    /\ ~can_open(html_files[idx])
    /\ pc' = "crashed"
    /\ exit_code' = 1
    /\ UNCHANGED <<tree, content, target_folder, html_files, js_files, idx, used_in_file, all_used,
                   used_js_names, used_js_paths, unused_js_paths, log>>

\* line 83 and the assignment of line 163
GatherReturn ==
    /\ pc = "gather"
    /\ idx > Len(html_files)
    /\ used_js_names' = all_used
    /\ pc' = "partition"
    /\ UNCHANGED <<tree, content, target_folder, html_files, js_files, idx, used_in_file, all_used,
                   used_js_paths, unused_js_paths, log, exit_code>>

\* line 166
Partition ==
    /\ pc = "partition"
    /\ LET r == partition_js_files(js_files, used_js_names)
       IN  /\ used_js_paths' = r[1]
           /\ unused_js_paths' = r[2]
    /\ pc' = "report"
    /\ UNCHANGED <<tree, content, target_folder, html_files, js_files, idx, used_in_file, all_used,
                   used_js_names, log, exit_code>>

\* line 169, then main returns and the process exits with status 0
Report ==
    /\ pc = "report"
    /\ log' = log \o log_results(used_js_paths, unused_js_paths)
    /\ pc' = "done"
    /\ exit_code' = 0
    /\ UNCHANGED <<tree, content, target_folder, html_files, js_files, idx, used_in_file, all_used,
                   used_js_names, used_js_paths, unused_js_paths>>

Next ==
    \/ \E argv \in ArgPool : Start(argv)
    \/ GatherStep
    \/ GatherRaise
    \/ GatherReturn
    \/ Partition
    \/ Report

Spec == Init /\ [][Next]_vars

----------------------------------------------------------------------------
(* partition_js_files on its own: every list of paths, every reference set *)

P_a_js     == <<"/", "r", "/", "a", ".", "j", "s">>
P_A_JS     == <<"/", "r", "/", "A", ".", "J", "S">>
P_d_a_js   == <<"/", "r", "/", "d", "/", "a", ".", "j", "s">>
P_b_js     == <<"/", "r", "/", "b", ".", "j", "s">>
P_bare_js  == <<"b", ".", "J", "S">>

JsPathPool  == { P_a_js, P_A_JS, P_d_a_js, P_b_js, P_bare_js }
RefNamePool == { N_a_js, N_A_JS, SRC_b_JS, <<"d", "/", "a", ".", "j", "s">> }

InitPartition ==
    /\ pc = "partition_call"
    /\ js_files \in ListingsOf(JsPathPool, MaxJs)
    /\ used_js_names \in SUBSET RefNamePool
    /\ tree = <<>>
    /\ content = <<>>
    /\ target_folder = <<>>
    /\ html_files = <<>>
    /\ idx = 1
    /\ used_in_file = {}
    /\ all_used = {}
    /\ used_js_paths = <<>>
    /\ unused_js_paths = <<>>
    /\ log = <<>>
    /\ exit_code = -1

\* used_js_paths, unused_js_paths = partition_js_files(js_files, used_js_names)
PartitionCall ==
    /\ pc = "partition_call"
    /\ LET r == partition_js_files(js_files, used_js_names)
       IN  /\ used_js_paths' = r[1]
           /\ unused_js_paths' = r[2]
    /\ pc' = "partition_return"
    /\ UNCHANGED <<tree, content, target_folder, html_files, js_files, idx, used_in_file,
                   all_used, used_js_names, log, exit_code>>

NextPartition == PartitionCall

SpecPartition == InitPartition /\ [][NextPartition]_vars

----------------------------------------------------------------------------
(* extract_js_filenames_from_html on its own: every small document *)

P_html == <<"/", "r", "/", "i", ".", "h", "t", "m", "l">>

SrcPool == { SRC_a_js, SRC_lib_A_JS, SRC_b_JS, SRC_c_css, SRC_js_dir, SRC_ajs }

ElemPool ==
    { Elem("script", TRUE, src) : src \in SrcPool }
    \cup { Elem("script", FALSE, <<>>), Elem("img", TRUE, SRC_a_js) }

DocPool ==
    { Doc(es) : es \in UNION { [1..k -> ElemPool] : k \in 0..MaxElems } }
    \cup { Unreadable }

InitExtract ==
    /\ pc = "extract_call"
    /\ html_files = <<P_html>>
    /\ content \in [{P_html} -> DocPool]
    /\ tree = <<[dir |-> ROOT_DIR, filenames |-> <<N_i_html>>]>>
    /\ target_folder = <<>>
    /\ js_files = <<>>
    /\ idx = 1
    /\ used_in_file = {}
    /\ all_used = {}
    /\ used_js_names = {}
    /\ used_js_paths = <<>>
    /\ unused_js_paths = <<>>
    /\ log = <<>>
    /\ exit_code = -1

\* used_in_file = extract_js_filenames_from_html(html_path)
ExtractCall ==
    /\ pc = "extract_call"
    /\ can_open(html_files[1])
    /\ used_in_file' = extract_js_filenames_from_html(html_files[1])
    /\ pc' = "extract_return"
    /\ UNCHANGED <<tree, content, target_folder, html_files, js_files, idx, all_used,
                   used_js_names, used_js_paths, unused_js_paths, log, exit_code>>

\* open() raises
ExtractRaise ==
    /\ pc = "extract_call"
    /\ ~can_open(html_files[1])
    /\ pc' = "extract_raised"
    /\ UNCHANGED <<tree, content, target_folder, html_files, js_files, idx, used_in_file,
                   all_used, used_js_names, used_js_paths, unused_js_paths, log, exit_code>>

NextExtract == ExtractCall \/ ExtractRaise

SpecExtract == InitExtract /\ [][NextExtract]_vars

----------------------------------------------------------------------------
(* Properties *)

\* position of path p in the list s (0 when absent)
pos(s, p) == IF \E i \in 1..Len(s) : s[i] = p THEN CHOOSE i \in 1..Len(s) : s[i] = p ELSE 0

\* t lists some of the elements of s, in the order s has them
in_order_of(t, s) ==
    \A i, j \in 1..Len(t) : i < j => pos(s, t[i]) < pos(s, t[j])

\* C1: after partition_js_files, every discovered path is in exactly one of
\* used and unused, the two lists hold the discovered paths and nothing
\* else, and together they are as long as the input list.
C1_PartitionExact ==
    pc = "partition_return" =>
        /\ \A p \in Range(js_files) :
              (p \in Range(used_js_paths)) # (p \in Range(unused_js_paths))
        /\ Range(used_js_paths) \cup Range(unused_js_paths) = Range(js_files)
        /\ Len(used_js_paths) + Len(unused_js_paths) = Len(js_files)

C1_Witness ==
    /\ pc = "partition_return"
    /\ Len(js_files) = MaxJs
    /\ used_js_paths # <<>>
    /\ unused_js_paths # <<>>

\* C2: a path is in used exactly when its basename is a member of the
\* reference set (the same string), otherwise it is in unused, and each
\* list keeps the order of the input list.
C2_MembershipAndOrder ==
    pc = "partition_return" =>
        /\ \A p \in Range(js_files) :
              /\ (p \in Range(used_js_paths)) <=> (basename(p) \in used_js_names)
              /\ (p \in Range(unused_js_paths)) <=> (basename(p) \notin used_js_names)
        /\ in_order_of(used_js_paths, js_files)
        /\ in_order_of(unused_js_paths, js_files)

C2_Witness ==
    /\ pc = "partition_return"
    /\ Len(used_js_paths) >= 2
    /\ unused_js_paths # <<>>
    /\ \E p \in Range(unused_js_paths) :
          lower(basename(p)) \in { lower(n) : n \in used_js_names }

\* C9 (as claimed): a path whose basename equals a referenced name up to
\* letter case is placed in used.
C9_CaseInsensitiveMatch ==
    pc = "partition_return" =>
        \A p \in Range(js_files) :
            (\E n \in used_js_names : lower(n) = lower(basename(p)))
                => p \in Range(used_js_paths)

\* C7: the extractor returns exactly the basenames of the src values of the
\* script elements that have a src, kept (in their own case) when the
\* basename ends in .js whatever its case; other elements give nothing.
C7_ExtractExact ==
    pc = "extract_return" =>
        LET elems == content[html_files[1]].elems
            scripts == { e \in Range(elems) : e.tag = "script" /\ e.has_src }
            names == { SubSeq(e.src, last_sep(e.src) + 1, Len(e.src)) : e \in scripts }
        IN  used_in_file =
                { n \in names : Len(n) >= 3
                                /\ lower(SubSeq(n, Len(n) - 2, Len(n))) = <<".", "j", "s">> }

C7_Witness ==
    /\ pc = "extract_return"
    /\ content[html_files[1]].elems =
           <<Elem("script", TRUE, SRC_lib_A_JS), Elem("script", FALSE, <<>>)>>
    /\ used_in_file = {N_A_JS}

----------------------------------------------------------------------------
(* Properties of a whole run *)

\* the names the HTML files of the run reference, whatever the scan order
html_refs == UNION { extract_js_filenames_from_html(h) : h \in Range(html_files) }

\* the basename an import specifier stands for: .js is appended when the
\* last segment has no extension
import_name(specifier) ==
    LET b == basename(specifier)
    IN  IF \E i \in 1..Len(b) : b[i] = "." THEN b ELSE b \o JS_EXTENSION

\* a discovered JS file other than p imports the JS file at path p
imported_by_js(p) ==
    \E q \in Range(js_files) :
        /\ q # p
        /\ \E i \in 1..Len(content[q].imports) :
              import_name(content[q].imports[i]) = basename(p)

\* C3 (as claimed): a discovered JS file that another discovered JS file
\* imports is classified as used, even when no HTML file references it.
C3_JsImportsCount ==
    pc = "done" =>
        \A p \in Range(js_files) : imported_by_js(p) => p \in Range(used_js_paths)

\* the files an extractor has been applied to so far: the loop of
\* gather_all_used_js_names has been through html_files[1 .. idx-1]
scanned == { html_files[i] : i \in 1..(idx - 1) }

\* the names the JS files of the run import, kept when they end in .js
js_refs ==
    { n \in UNION { { import_name(content[q].imports[i]) :
                         i \in 1..Len(content[q].imports) } : q \in Range(js_files) } :
        endswith(lower(n), JS_EXTENSION) }

\* C4 (as claimed): when the partition starts, an extractor has been applied
\* to every discovered source file, HTML and JavaScript, and the reference
\* set is complete: it holds every name referenced from either kind of file.
C4_PartitionAfterFullScan ==
    pc \in {"partition", "report", "done"} =>
        /\ Range(html_files) \cup Range(js_files) \subseteq scanned
        /\ used_js_names = html_refs \cup js_refs

\* C5 (as claimed): an HTML file that cannot be opened does not abort the
\* run.
C5_FailureIsolated ==
    (\E h \in Range(html_files) : ~can_open(h)) => (pc # "crashed" /\ exit_code # 1)

\* the root given on the command line is a directory
is_dir(path) == \E i \in 1..Len(tree) : tree[i].dir = path

has_line(msg) == \E i \in 1..Len(log) : log[i].msg = msg

\* C6 (as claimed): with an invalid root the run ends with a non-zero exit
\* code and without the success message.
C6_InvalidRootFails ==
    (pc \in {"done", "crashed"} /\ ~is_dir(target_folder)) =>
        (exit_code # 0 /\ ~has_line(MSG_ALL_USED))

\* the paths of the UNUSED lines of the log, in order
RECURSIVE unused_lines(_)
unused_lines(lines) ==
    IF lines = <<>> THEN <<>>
    ELSE (IF Head(lines).msg = MSG_UNUSED THEN <<Head(lines).args[1]>> ELSE <<>>)
         \o unused_lines(Tail(lines))

no_files == \A i \in 1..Len(tree) : tree[i].filenames = <<>>

\* C8: the report has one UNUSED line per path of the unused list, in list
\* order; the success message is there exactly when that list is empty; a
\* run over an empty tree counts 0 HTML and 0 JS files and ends with the
\* success message and exit code 0.
C8_Report ==
    pc = "done" =>
        /\ unused_lines(log) = unused_js_paths
        /\ has_line(MSG_ALL_USED) <=> (unused_js_paths = <<>>)
        /\ no_files =>
              /\ log[2].msg = MSG_FOUND /\ log[2].args = <<0, 0>>
              /\ unused_js_paths = <<>>
              /\ has_line(MSG_ALL_USED)
              /\ exit_code = 0

C8_Witness ==
    /\ pc = "done"
    /\ Len(unused_js_paths) >= 2
    /\ unused_lines(log) = unused_js_paths
    /\ ~has_line(MSG_ALL_USED)

\* C10: two discovered JS files with the same basename are classified
\* alike, and when that basename is referenced both are used.
C10_SameBasenameSameClass ==
    pc \in {"report", "done"} =>
        \A p, q \in Range(js_files) :
            basename(p) = basename(q) =>
                /\ (p \in Range(used_js_paths)) <=> (q \in Range(used_js_paths))
                /\ (p \in Range(unused_js_paths)) <=> (q \in Range(unused_js_paths))
                /\ basename(p) \in used_js_names =>
                      {p, q} \cap Range(unused_js_paths) = {}

C10_Witness ==
    /\ pc = "done"
    /\ \E p, q \in Range(js_files) :
          /\ p # q
          /\ basename(p) = basename(q)
          /\ p \in Range(used_js_paths)
          /\ q \in Range(used_js_paths)

====
